---- MODULE Spec2Model ----
(***************************************************************************)
(* Model of src/src/main.rs: the `notify` command and the `main` bootstrap *)
(* of a Tauri application.                                                 *)
(*                                                                         *)
(* Text is modelled as a sequence of Unicode scalar values (Rust `char`),  *)
(* the console as the stream of characters written to standard output.    *)
(* A console line is a maximal run of characters ended by a line feed.     *)
(* Standard output is taken to be writable (println! panics otherwise).    *)
(***************************************************************************)
EXTENDS Integers, Sequences, FiniteSets, TLC

VARIABLES
    pc,          \* position of main
    handlers,    \* command names registered with the runtime
    pending,     \* IPC calls issued by the front end, not yet dispatched
    nextId,      \* number of IPC calls issued so far
    responses,   \* outcome of every dispatched IPC call
    runs,        \* history: the executions of notify, in order
    stdout,      \* characters written to standard output
    stderr,      \* diagnostics written to standard error
    exitCode,    \* process exit status, -1 while the process lives
    runResult,   \* what Builder::run returned, "none" before it returns
    attempts,    \* history: how many times run() was entered
    everRunning  \* history: the event loop has started

vars == <<pc, handlers, pending, nextId, responses, runs, stdout, stderr,
          exitCode, runResult, attempts, everRunning>>

(* ---------------------------- bounds ---------------------------------- *)
MaxLen == 1
MaxCalls == 2

(* ---------------------------- text ------------------------------------ *)
\* the line feed println! ends its output with
NL == 10

\* input alphabet: 'a', the non-ASCII 'e-acute' (U+00E9), and line feed
Chars == {97, 233, NL}

\* the literal "Notification from renderer: " of the format string
Prefix == <<78, 111, 116, 105, 102, 105, 99, 97, 116, 105, 111, 110, 32,
            102, 114, 111, 109, 32,
            114, 101, 110, 100, 101, 114, 101, 114, 58, 32>>

SeqsUpTo(S, n) == UNION {[1..k -> S] : k \in 0..n}

\* every value of type String within the bound
Texts == SeqsUpTo(Chars, MaxLen)

\* variant: {:?} in place of {}, the message is written between quotes
FormatLineDebug(message) == Prefix \o <<34>> \o message \o <<34, NL>>

\* variant: print! in place of println!, no line terminator
FormatLineNoNewline(message) == Prefix \o message

\* println!("Notification from renderer: {}", message): the characters written
FormatLine(message) == Prefix \o message \o <<NL>>

\* variant: the write replaces what standard output held
ConsoleWriteOverwrite(out, s) == s

\* writing to standard output appends to what is already there
ConsoleWrite(out, s) == out \o s

\* variant: a handler that remembers the last line and skips a repetition
notifyDedup(out, message) ==
    LET line == Prefix \o message \o <<NL>>
    IN  IF Len(out) >= Len(line)
           /\ SubSeq(out, Len(out) - Len(line) + 1, Len(out)) = line
        THEN out
        ELSE out \o line

\* fn notify(message: String): the effect on standard output
notify(out, message) == ConsoleWrite(out, FormatLine(message))

\* variant: a handler that rejects the empty message
NotifyOutcomeRejectEmpty(message) == IF message = <<>> THEN "error" ELSE "ok"

\* the unit value notify returns, seen by the caller as success
NotifyOutcome(message) == "ok"

(* ---------------------------- console lines --------------------------- *)
RECURSIVE CountNL(_)
CountNL(s) == IF s = <<>> THEN 0
              ELSE (IF Head(s) = NL THEN 1 ELSE 0) + CountNL(Tail(s))

HasNL(s) == \E i \in 1..Len(s) : s[i] = NL

\* the complete lines of a character stream, without their terminators
RECURSIVE SplitLines(_, _)
SplitLines(s, cur) ==
    IF s = <<>> THEN <<>>
    ELSE IF Head(s) = NL THEN <<cur>> \o SplitLines(Tail(s), <<>>)
    ELSE SplitLines(Tail(s), Append(cur, Head(s)))

Lines(s) == SplitLines(s, <<>>)

\* characters after the last line terminator (an unfinished line)
RECURSIVE Partial(_, _)
Partial(s, cur) ==
    IF s = <<>> THEN cur
    ELSE IF Head(s) = NL THEN Partial(Tail(s), <<>>)
    ELSE Partial(Tail(s), Append(cur, Head(s)))

IsPrefixOf(s, t) == Len(s) <= Len(t) /\ SubSeq(t, 1, Len(s)) = s

(* ---------------------------- bootstrap ------------------------------- *)
\* variant: a second name registered for the handler
GenerateHandlerTwo == {"notify", "other"}

\* tauri::generate_handler![notify]: the command names that are invokable
GenerateHandler == {"notify"}

\* the message given to expect()
ExpectMsg == "error while running tauri application"

\* ways Builder::run can fail before the event loop starts
StartupErrors == {"InvalidContext", "CreateWindow"}

\* exit status of a Rust process whose main thread panics (unwind / abort)
PanicExitCodes == {101, 134}

\* variant: the result of run() is discarded instead of expected
ExpectPanicsNever(result) == FALSE

\* Result::expect on the value run() returns: whether main panics
ExpectPanics(result) == result # "Ok"

\* variant: calls are delivered whatever the position of main
CanDispatchAlways == TRUE

\* the event loop is what delivers IPC calls to command handlers
CanDispatch == pc = "running"

Lifecycle == CASE pc = "running" -> "Running"
               [] pc = "exited"  -> "Terminated"
               [] OTHER          -> "Uninitialized"

\* names the front end may try to invoke
Commands == {"notify", "other"}

\* IPC payloads: a text `message`, or one that does not deserialize to String
TextPayload(m) == [wellFormed |-> TRUE, text |-> m]
Malformed == [wellFormed |-> FALSE, text |-> <<>>]
Payloads == {TextPayload(m) : m \in Texts} \cup {Malformed}

Init ==
    /\ pc = "start"
    /\ handlers = {}
    /\ pending = {}
    /\ nextId = 0
    /\ responses = {}
    /\ runs = <<>>
    /\ stdout = <<>>
    /\ stderr = <<>>
    /\ exitCode = -1
    /\ runResult = "none"
    /\ attempts = 0
    /\ everRunning = FALSE

\* tauri::Builder::default()
BuilderDefault ==
    /\ pc = "start"
    /\ pc' = "builder"
    /\ handlers' = {}
    /\ UNCHANGED <<pending, nextId, responses, runs, stdout, stderr,
                   exitCode, runResult, attempts, everRunning>>

\* .invoke_handler(tauri::generate_handler![notify])
InvokeHandler ==
    /\ pc = "builder"
    /\ pc' = "configured"
    /\ handlers' = GenerateHandler
    /\ UNCHANGED <<pending, nextId, responses, runs, stdout, stderr,
                   exitCode, runResult, attempts, everRunning>>

\* .run(context) builds the application and enters the event loop
RunStart ==
    /\ pc = "configured"
    /\ pc' = "running"
    /\ attempts' = attempts + 1
    /\ everRunning' = TRUE
    /\ UNCHANGED <<handlers, pending, nextId, responses, runs, stdout, stderr,
                   exitCode, runResult>>

\* main ends: run() has returned `result` and expect() is applied to it
Terminate(result) ==
    /\ pc' = "exited"
    /\ runResult' = result
    /\ IF ExpectPanics(result)
       THEN /\ stderr' = stderr \o <<ExpectMsg, result>>
            /\ exitCode' \in PanicExitCodes
       ELSE /\ stderr' = stderr
            /\ exitCode' = 0

\* variant: a failed start is reported and run() is tried again
RunFailRetry(err) ==
    /\ pc = "configured"
    /\ attempts < 2
    /\ attempts' = attempts + 1
    /\ runResult' = err
    /\ stderr' = stderr \o <<ExpectMsg, err>>
    /\ UNCHANGED <<pc, handlers, pending, nextId, responses, runs, stdout,
                   exitCode, everRunning>>

\* .run(context) fails before the event loop starts; .expect(..) panics
RunFail(err) ==
    /\ pc = "configured"
    /\ attempts' = attempts + 1
    /\ Terminate(err)
    /\ UNCHANGED <<handlers, pending, nextId, responses, runs, stdout,
                   everRunning>>

\* variant: the end of the event loop leads back to the start of run()
EventLoopEndRestart ==
    /\ pc = "running"
    /\ pc' = "configured"
    /\ UNCHANGED <<handlers, pending, nextId, responses, runs, stdout, stderr,
                   exitCode, runResult, attempts, everRunning>>

\* the event loop ends (window closed, exit requested) and run() is over
EventLoopEnd ==
    /\ pc = "running"
    /\ Terminate("Ok")
    /\ UNCHANGED <<handlers, pending, nextId, responses, runs, stdout,
                   attempts, everRunning>>

\* the front end issues an IPC call
Invoke(cmd, payload) ==
    /\ pc = "running"
    /\ nextId < MaxCalls
    /\ pending' = pending \cup {[id |-> nextId, cmd |-> cmd, payload |-> payload]}
    /\ nextId' = nextId + 1
    /\ UNCHANGED <<pc, handlers, responses, runs, stdout, stderr, exitCode, runResult,
                   attempts, everRunning>>

Respond(c, outcome) ==
    responses' = responses \cup
        {[id |-> c.id, cmd |-> c.cmd, payload |-> c.payload, outcome |-> outcome]}

\* a call whose name is not registered is rejected by the runtime
DispatchNotFound(c) ==
    /\ CanDispatch
    /\ c \in pending
    /\ c.cmd \notin handlers
    /\ pending' = pending \ {c}
    /\ Respond(c, "not_found")
    /\ UNCHANGED <<pc, handlers, nextId, runs, stdout, stderr, exitCode, runResult,
                   attempts, everRunning>>

\* #[tauri::command]: `message` must deserialize to String, else rejected
DispatchInvalidArgs(c) ==
    /\ CanDispatch
    /\ c \in pending
    /\ c.cmd \in handlers
    /\ ~c.payload.wellFormed
    /\ pending' = pending \ {c}
    /\ Respond(c, "invalid_args")
    /\ UNCHANGED <<pc, handlers, nextId, runs, stdout, stderr, exitCode, runResult,
                   attempts, everRunning>>

\* the runtime calls notify(message) and resolves the call
DispatchNotify(c) ==
    /\ CanDispatch
    /\ c \in pending
    /\ c.cmd \in handlers
    /\ c.payload.wellFormed
    /\ pending' = pending \ {c}
    /\ stdout' = notify(stdout, c.payload.text)
    /\ runs' = Append(runs, [id |-> c.id, message |-> c.payload.text,
                             lifecycle |-> Lifecycle])
    /\ Respond(c, NotifyOutcome(c.payload.text))
    /\ UNCHANGED <<pc, handlers, nextId, stderr, exitCode, runResult, attempts,
                   everRunning>>

Next ==
    \/ BuilderDefault
    \/ InvokeHandler
    \/ RunStart
    \/ \E err \in StartupErrors : RunFail(err)
    \/ EventLoopEnd
    \/ \E cmd \in Commands, p \in Payloads : Invoke(cmd, p)
    \/ \E c \in pending : DispatchNotFound(c)
    \/ \E c \in pending : DispatchInvalidArgs(c)
    \/ \E c \in pending : DispatchNotify(c)

Spec == Init /\ [][Next]_vars

(* ====================================================================== *)
(* Properties                                                             *)
(* ====================================================================== *)

\* a step in which notify ran once
NotifyRan == Len(runs') = Len(runs) + 1
\* the message of the run that such a step adds
LastMessage == runs'[Len(runs')].message

\* what the console holds after the given runs of notify, from empty
RECURSIVE Rendered(_)
Rendered(rs) == IF rs = <<>> THEN <<>>
                ELSE Prefix \o Head(rs).message \o <<NL>> \o Rendered(Tail(rs))

RECURSIVE SumNL(_)
SumNL(rs) == IF rs = <<>> THEN 0
             ELSE CountNL(Head(rs).message) + SumNL(Tail(rs))

SameMessage == \A i \in 1..Len(runs) : runs[i].message = runs[1].message
NoLineFeeds == \A i \in 1..Len(runs) : ~HasNL(runs[i].message)
RunIds == {runs[i].id : i \in 1..Len(runs)}
Succeeded == {r \in responses : r.outcome = "ok"}

\* the rest of the observable state is left alone by a step
NothingElseChanges ==
    /\ pc' = pc
    /\ handlers' = handlers
    /\ stderr' = stderr
    /\ exitCode' = exitCode
    /\ runResult' = runResult

\* C1 (as stated): every run of notify with message m appends exactly one
\* console line, that line is Prefix followed by m, and nothing else changes.
C1_AsStated ==
    [][NotifyRan =>
        /\ Lines(stdout') = Append(Lines(stdout), Prefix \o LastMessage)
        /\ Partial(stdout', <<>>) = <<>>
        /\ NothingElseChanges]_vars

\* C1 (amended): every run of notify with message m appends exactly the
\* characters Prefix, m, line feed to the console and changes nothing else;
\* this is exactly one line, equal to Prefix followed by m, whenever m holds
\* no line feed (the empty message included).
C1_NotifyAppends ==
    [][NotifyRan =>
        /\ stdout' = stdout \o Prefix \o LastMessage \o <<NL>>
        /\ (~HasNL(LastMessage) =>
               Lines(stdout') = Append(Lines(stdout), Prefix \o LastMessage))
        /\ Partial(stdout', <<>>) = <<>>
        /\ NothingElseChanges]_vars

\* notify has run with the empty message and the console shows the bare prefix
C1_Witness ==
    /\ Len(runs) >= 1
    /\ runs[Len(runs)].message = <<>>
    /\ Lines(stdout)[Len(Lines(stdout))] = Prefix

\* C2: a notify call with a well-formed text payload always ends with the
\* success outcome, the empty and the non-ASCII text included.
C2_NeverFails ==
    \A r \in responses :
        (r.cmd = "notify" /\ r.payload.wellFormed) => r.outcome = "ok"

\* notify calls with the empty text and with a non-ASCII text have been answered
C2_Witness ==
    /\ \E r \in responses : r.cmd = "notify" /\ r.payload = TextPayload(<<>>)
    /\ \E r \in responses : r.cmd = "notify" /\ r.payload = TextPayload(<<233>>)

\* C3 (as stated): after N runs of notify with one and the same message the
\* console holds exactly N lines, all identical.
C3_AsStated ==
    (Len(runs) >= 1 /\ SameMessage) =>
        /\ Len(Lines(stdout)) = Len(runs)
        /\ \A i \in 1..Len(Lines(stdout)) : Lines(stdout)[i] = Lines(stdout)[1]

\* C3 (amended): the console is the concatenation, in order, of Prefix, m,
\* line feed for every run of notify, whatever ran before; after N runs with
\* one message m without line feed it holds exactly N lines, each Prefix m.
C3_NoAccumulatedState ==
    /\ stdout = Rendered(runs)
    /\ (Len(runs) >= 1 /\ SameMessage /\ NoLineFeeds) =>
           Lines(stdout) = [i \in 1..Len(runs) |-> Prefix \o runs[1].message]

\* notify has run twice with the same non-empty message
C3_Witness ==
    /\ Len(runs) >= 2
    /\ SameMessage
    /\ runs[1].message = <<97>>
    /\ Len(Lines(stdout)) = Len(runs)

\* C4: the lifecycle only moves Uninitialized -> Running (the event loop
\* starts), Running -> Terminated (the event loop ends, exit status 0) and
\* Uninitialized -> Terminated (failed start, with a diagnostic).
C4_Lifecycle ==
    [][Lifecycle' # Lifecycle =>
        \/ /\ Lifecycle = "Uninitialized" /\ Lifecycle' = "Running"
           /\ runResult' = "none"
        \/ /\ Lifecycle = "Running" /\ Lifecycle' = "Terminated"
           /\ runResult' = "Ok"
        \/ /\ Lifecycle = "Uninitialized" /\ Lifecycle' = "Terminated"
           /\ runResult' \in StartupErrors]_vars

\* the application has run, served a call and then terminated
C4_Witness ==
    /\ Lifecycle = "Terminated"
    /\ everRunning
    /\ Len(runs) >= 1

\* C5: when run() fails to start, the process is terminated with the
\* diagnostic and a non-zero status, the event loop never started, and
\* run() was entered exactly once.
C5_FatalStartup ==
    runResult \in StartupErrors =>
        /\ pc = "exited"
        /\ ~everRunning
        /\ attempts = 1
        /\ stderr = <<ExpectMsg, runResult>>
        /\ exitCode \in PanicExitCodes
        /\ stdout = <<>> /\ responses = {}

\* the start failed for an invalid context
C5_Witness ==
    /\ runResult = "InvalidContext"
    /\ pc = "exited"
    /\ stderr # <<>>

\* C6: once registered, the invokable names are exactly {notify}; a call of
\* any other name is answered not_found, never runs the handler, and the
\* console holds only what runs of notify calls wrote.
C6_SoleCommand ==
    /\ pc \in {"configured", "running", "exited"} => handlers = {"notify"}
    /\ \A r \in responses :
          /\ r.cmd # "notify" => (r.outcome = "not_found" /\ r.id \notin RunIds)
          /\ r.cmd = "notify" => r.outcome # "not_found"
          /\ (r.cmd = "notify" /\ r.payload.wellFormed) => r.id \in RunIds
    /\ (\A r \in responses : r.cmd # "notify") => stdout = <<>>

\* a call named "other" was rejected while a notify call ran
C6_Witness ==
    /\ \E r \in responses : r.cmd = "other" /\ r.payload.wellFormed
    /\ \E r \in responses : r.cmd = "notify" /\ r.id \in RunIds

\* C7: the exit status is 0 after the event loop ended normally and non-zero
\* after a failed start; there is no status while the process lives.
C7_ExitCodes ==
    /\ pc # "exited" => exitCode = -1
    /\ (pc = "exited" /\ runResult = "Ok") => exitCode = 0
    /\ (pc = "exited" /\ runResult # "Ok") =>
           (runResult \in StartupErrors /\ exitCode \notin {0, -1})

\* the process has ended by the abort of a failed start
C7_Witness ==
    /\ pc = "exited"
    /\ runResult \in StartupErrors
    /\ exitCode = 134

\* C8 (as stated): once all k issued notify calls are dispatched, in any
\* order, the console holds exactly k lines, one whole line per call.
C8_AsStated ==
    pending = {} =>
        /\ Len(Lines(stdout)) = Cardinality(Succeeded)
        /\ Partial(stdout, <<>>) = <<>>
        /\ \E f \in [1..Len(Lines(stdout)) -> Succeeded] :
              /\ \A i, j \in DOMAIN f : i # j => f[i] # f[j]
              /\ \A i \in DOMAIN f : Lines(stdout)[i] = Prefix \o f[i].payload.text

\* C8 (amended): however the calls are interleaved, every successful notify
\* call ran the handler exactly once and the console is the concatenation of
\* whole records Prefix, m, line feed, one per call in the order they ran;
\* these are exactly k whole lines when no message holds a line feed.
C8_Independent ==
    /\ Len(runs) = Cardinality(Succeeded)
    /\ Cardinality(RunIds) = Len(runs)
    /\ RunIds = {r.id : r \in Succeeded}
    /\ \A i \in 1..Len(runs) : \E r \in Succeeded :
          r.id = runs[i].id /\ r.payload.text = runs[i].message
    /\ stdout = Rendered(runs)
    /\ Partial(stdout, <<>>) = <<>>
    /\ NoLineFeeds =>
          /\ Len(Lines(stdout)) = Len(runs)
          /\ \A i \in 1..Len(runs) : Lines(stdout)[i] = Prefix \o runs[i].message

\* two calls with different messages ran in the order opposite to their issue
C8_Witness ==
    /\ pending = {}
    /\ Len(runs) >= 2
    /\ runs[1].id > runs[2].id
    /\ runs[1].message # runs[2].message

\* C9 (as stated): notify runs only while Running, nothing is on the console
\* before the event loop started, and the number of console lines equals the
\* number of runs of notify.
C9_AsStated ==
    /\ \A i \in 1..Len(runs) : runs[i].lifecycle = "Running"
    /\ ~everRunning => stdout = <<>>
    /\ Len(Lines(stdout)) = Len(runs)

\* C9 (amended): notify runs only while Running, nothing is on the console
\* before the event loop started or after a failed start, and the console
\* holds one line terminator per run of notify plus those inside the
\* messages (as many lines as runs when no message holds a line feed).
C9_OnlyWhileRunning ==
    /\ \A i \in 1..Len(runs) : runs[i].lifecycle = "Running"
    /\ ~everRunning => (stdout = <<>> /\ runs = <<>>)
    /\ Len(Lines(stdout)) = Len(runs) + SumNL(runs)
    /\ NoLineFeeds => Len(Lines(stdout)) = Len(runs)

\* the application terminated with a call still undelivered, after one ran
C9_Witness ==
    /\ Lifecycle = "Terminated"
    /\ pending # {}
    /\ \E c \in pending : c.cmd = "notify" /\ c.payload.wellFormed
    /\ Len(runs) >= 1

\* C10: a run of notify leaves the lifecycle in Running and the process
\* alive, and the console is only ever extended, never rewritten.
C10_Frame ==
    [][/\ IsPrefixOf(stdout, stdout')
       /\ NotifyRan =>
            /\ Lifecycle = "Running" /\ Lifecycle' = "Running"
            /\ exitCode' = -1
            /\ Len(stdout') > Len(stdout)]_vars

\* notify has run a second time and the first line is still on the console
C10_Witness ==
    /\ Len(runs) >= 2
    /\ Lifecycle = "Running"
    /\ Lines(stdout)[1] = Prefix \o runs[1].message

====
